---- MODULE Spec2Model ----
(***************************************************************************)
(* A model of the extended CKY recogniser of cky.py: the rule index built  *)
(* by CKY.buildIndices, the chart of Cells, Cell.addLabel, the recursive   *)
(* Cell.unaryUpdate (as an explicit call stack), CKY.unaryFill,            *)
(* CKY.binaryScan / CKY.maybeBuild (as explicit loop positions) and the    *)
(* value CKY.recognise returns.                                            *)
(***************************************************************************)
EXTENDS Integers, Sequences, FiniteSets

\* ------------------------------------------------------------------ bounds
\* longest token sequence handed to recognise
MaxTokens == 3
\* depth of nested unaryUpdate calls at which the interpreter raises
\* RecursionError (scaled down from the interpreter's limit)
RecursionLimit == 4

\* ------------------------------------------------------------------ inputs
\* terminals a token sequence is drawn from
Tokens == {"the", "dog", "barks"}

\* the designated start symbol of the grammars
Starts == {"S"}

Prod(l, r) == [lhs |-> l, rhs |-> r]

\* productions a grammar is drawn from (a grammar is a subsequence of these)
Pool == << Prod("S", <<"NP", "VP">>),
           Prod("NP", <<"the", "N">>),
           Prod("N", <<"dog">>),
           Prod("VP", <<"barks">>),
           Prod("S", <<>>),
           Prod("S", <<"N">>),
           Prod("N", <<"S">>),
           Prod("N", <<"dog">>),
           Prod("S", <<"the", "dog", "barks">>),
           Prod("VP", <<"N">>) >>

RECURSIVE Pick(_, _)
Pick(I, i) ==
    IF i > Len(Pool) THEN <<>>
    ELSE (IF i \in I THEN <<Pool[i]>> ELSE <<>>) \o Pick(I, i + 1)

Grammars == { [productions |-> Pick(I, 1), start |-> s] :
                 I \in SUBSET (1..Len(Pool)), s \in Starts }

TokenSeqs == UNION { [1..k -> Tokens] : k \in 0..MaxTokens }

Range(s) == { s[i] : i \in 1..Len(s) }

\* ------------------------------------------------------------- rule index
\* the empty defaultdict(list)
EmptyIndex == [x \in {} |-> <<>>]

\* defaultdict.__getitem__: a missing key is inserted with an empty list
DefaultDictGet(index, key) ==
    IF key \in DOMAIN index
    THEN [index |-> index, value |-> index[key]]
    ELSE [index |-> [x \in DOMAIN index \cup {key} |->
                        IF x = key THEN <<>> ELSE index[x]],
          value |-> <<>>]

\* index[key].append(lhs)
IndexAppend(index, key, lhs) ==
    LET got == DefaultDictGet(index, key)
    IN [x \in DOMAIN got.index |->
           IF x = key THEN Append(got.value, lhs) ELSE got.index[x]]

\* a lookup without the `in` test: the defaultdict inserts the missing key
UnguardedLookup(index, key) == DefaultDictGet(index, key)

\* `if key in index: for p in index[key]`: the parents iterated over, and
\* the index as the lookup leaves it
GuardedLookup(index, key) ==
    IF key \in DOMAIN index
    THEN DefaultDictGet(index, key)
    ELSE [index |-> index, value |-> <<>>]

\* the assertion with its upper limit off by one
rhsArityUpTo3(rhs) == Len(rhs) > 0 /\ Len(rhs) <= 3

\* assert(len(rhs)>0 and len(rhs)<=2)
rhsArityOk(rhs) == Len(rhs) > 0 /\ Len(rhs) <= 2

\* the loop of buildIndices from production i on; ok is FALSE when the
\* assertion fails
RECURSIVE buildIndices(_, _, _, _)
buildIndices(productions, i, u, b) ==
    IF i > Len(productions)
    THEN [ok |-> TRUE, unary |-> u, binary |-> b]
    ELSE LET rhs == productions[i].rhs
             lhs == productions[i].lhs
         IN IF ~rhsArityOk(rhs)
            THEN [ok |-> FALSE, unary |-> u, binary |-> b]
            ELSE IF Len(rhs) = 1
                 THEN buildIndices(productions, i + 1,
                                   IndexAppend(u, rhs[1], lhs), b)
                 ELSE buildIndices(productions, i + 1,
                                   u, IndexAppend(b, rhs, lhs))

\* ------------------------------------------------------------------ cells
\* the (row, column) pairs recognise allocates a Cell for
Cells(nn) == { c \in (0..(nn - 2)) \X (0..(nn - 1)) : c[2] > c[1] }

\* addLabel without the membership test
addLabelAlways(labels, label) == Append(labels, label)

\* Cell.addLabel
addLabel(labels, label) ==
    IF label \notin Range(labels) THEN Append(labels, label) ELSE labels

\* maybeBuild writing to the left child's cell
maybeBuildLeftCell(s, m, e) == <<s, m>>

\* the cell maybeBuild(start, mid, end) writes to
maybeBuildCell(s, m, e) == <<s, e>>

\* the result without the test for the start symbol
recogniseCount(labels, startSym) == [tag |-> "int", value |-> Len(labels)]

\* the value recognise returns from the labels of the full-span cell
NoValue == [tag |-> "none", value |-> 0]
recogniseResult(labels, startSym) ==
    IF startSym \notin Range(labels)
    THEN [tag |-> "False", value |-> 0]
    ELSE [tag |-> "int", value |-> Len(labels)]

\* ------------------------------------------------------------------ state
VARIABLES
    obj,       \* "none", "ok" (a CKY object exists) or "failed" (__init__ raised)
    grammar,   \* self.grammar
    unary,     \* self.unary
    binary,    \* self.binary
    words,     \* self.words
    n,         \* self.n
    matrix,    \* self.matrix: cell (row, column) -> its _labels
    pc,        \* position of recognise: idle, unaryFill, binaryScan, result, done, raised
    r,         \* loop variable of unaryFill
    span,      \* loop variables of binaryScan
    start,
    mid,
    i1,        \* positions of the three loops of maybeBuild (s1, s2, s)
    i2,
    k,
    cur,       \* the cell whose unaryUpdate is running
    stack,     \* the active unaryUpdate calls: symbol and position in its for loop
    held,      \* history: labels of cur when the outermost unaryUpdate was called
    ret,       \* value returned by recognise
    err        \* exception raised by __init__ or recognise

vars == <<obj, grammar, unary, binary, words, n, matrix, pc, r, span, start,
          mid, i1, i2, k, cur, stack, held, ret, err>>

Frame(sym) == [symbol |-> sym, idx |-> 1]

Init ==
    /\ obj = "none"
    /\ grammar = [productions |-> <<>>, start |-> "S"]
    /\ unary = EmptyIndex
    /\ binary = EmptyIndex
    /\ words = <<>>
    /\ n = 0
    /\ matrix = [c \in {} |-> <<>>]
    /\ pc = "idle"
    /\ r = 0
    /\ span = 0
    /\ start = 0
    /\ mid = 0
    /\ i1 = 1
    /\ i2 = 1
    /\ k = 1
    /\ cur = <<0, 0>>
    /\ stack = <<>>
    /\ held = <<>>
    /\ ret = NoValue
    /\ err = "none"

\* CKY.__init__, for a grammar g
Construct ==
    /\ obj = "none"
    /\ \E g \in Grammars :
          LET built == buildIndices(g.productions, 1, EmptyIndex, EmptyIndex)
          IN /\ obj' = IF built.ok THEN "ok" ELSE "failed"
             /\ err' = IF built.ok THEN "none" ELSE "AssertionError"
             /\ unary' = built.unary
             /\ binary' = built.binary
             /\ grammar' = g
    /\ UNCHANGED <<words, n, matrix, pc, r, span, start, mid, i1, i2, k, cur,
                   stack, held, ret>>

\* recognise(tokens), up to the call of unaryFill; it may be called again on
\* the same object once an earlier call has returned or raised
Recognise ==
    /\ obj = "ok"
    /\ pc \in {"idle", "done", "raised"}
    /\ \E tokens \in TokenSeqs :
          /\ words' = tokens
          /\ n' = Len(tokens) + 1
          /\ matrix' = [c \in Cells(Len(tokens) + 1) |-> <<>>]
    /\ pc' = "unaryFill"
    /\ r' = 0
    /\ span' = 0
    /\ start' = 0
    /\ mid' = 0
    /\ i1' = 1
    /\ i2' = 1
    /\ k' = 1
    /\ cur' = <<0, 0>>
    /\ stack' = <<>>
    /\ held' = <<>>
    /\ ret' = NoValue
    /\ err' = "none"
    /\ UNCHANGED <<obj, grammar, unary, binary>>

\* one iteration of unaryFill: addLabel(word), then the call unaryUpdate(word)
UnaryFillCall ==
    /\ pc = "unaryFill"
    /\ stack = <<>>
    /\ r < n - 1
    /\ LET cell == <<r, r + 1>>
           word == words[r + 1]
           labels == addLabel(matrix[cell], word)
       IN /\ matrix' = [matrix EXCEPT ![cell] = labels]
          /\ cur' = cell
          /\ held' = labels
          /\ stack' = <<Frame(word)>>
    /\ r' = r + 1
    /\ UNCHANGED <<obj, grammar, unary, binary, words, n, pc, span, start, mid,
                   i1, i2, k, ret, err>>

\* the first (span, start, mid) of binaryScan, when there is one
ScanFirst(nn) ==
    IF 2 < nn THEN [more |-> TRUE, span |-> 2, start |-> 0, mid |-> 1]
    ELSE [more |-> FALSE, span |-> 0, start |-> 0, mid |-> 0]

\* binaryScan trying only the first split point of each cell
ScanNextFirstMid(nn, sp, st, m) ==
    IF st + 1 < nn - sp
    THEN [more |-> TRUE, span |-> sp, start |-> st + 1, mid |-> st + 2]
    ELSE IF sp + 1 < nn
         THEN [more |-> TRUE, span |-> sp + 1, start |-> 0, mid |-> 1]
         ELSE [more |-> FALSE, span |-> sp, start |-> st, mid |-> m]

\* the (span, start, mid) that follows in the three loops of binaryScan
ScanNext(nn, sp, st, m) ==
    IF m + 1 < st + sp
    THEN [more |-> TRUE, span |-> sp, start |-> st, mid |-> m + 1]
    ELSE IF st + 1 < nn - sp
         THEN [more |-> TRUE, span |-> sp, start |-> st + 1, mid |-> st + 2]
         ELSE IF sp + 1 < nn
              THEN [more |-> TRUE, span |-> sp + 1, start |-> 0, mid |-> 1]
              ELSE [more |-> FALSE, span |-> sp, start |-> st, mid |-> m]

\* unaryFill returns; binaryScan starts
UnaryFillReturn ==
    /\ pc = "unaryFill"
    /\ stack = <<>>
    /\ ~(r < n - 1)
    /\ LET nxt == ScanFirst(n)
       IN /\ pc' = IF nxt.more THEN "binaryScan" ELSE "result"
          /\ span' = nxt.span
          /\ start' = nxt.start
          /\ mid' = nxt.mid
    /\ i1' = 1
    /\ i2' = 1
    /\ k' = 1
    /\ UNCHANGED <<obj, grammar, unary, binary, words, n, matrix, r, cur,
                   stack, held, ret, err>>

\* unaryUpdate adding the parent without the recursive call
UnaryUpdateNoRecursion ==
    /\ stack # <<>>
    /\ LET top == stack[Len(stack)]
           got == GuardedLookup(unary, top.symbol)
       IN /\ top.idx <= Len(got.value)
          /\ unary' = got.index
          /\ matrix' = [matrix EXCEPT ![cur] = addLabel(@, got.value[top.idx])]
          /\ stack' = [stack EXCEPT ![Len(stack)].idx = top.idx + 1]
    /\ UNCHANGED <<obj, grammar, binary, words, n, pc, r, span, start, mid,
                   i1, i2, k, cur, held, ret, err>>

\* unaryUpdate: one iteration of `for parent in unary[symbol]`:
\* addLabel(parent), then the recursive call
UnaryUpdateExpand ==
    /\ stack # <<>>
    /\ LET top == stack[Len(stack)]
           got == GuardedLookup(unary, top.symbol)
       IN /\ top.idx <= Len(got.value)
          /\ Len(stack) < RecursionLimit
          /\ unary' = got.index
          /\ matrix' = [matrix EXCEPT ![cur] = addLabel(@, got.value[top.idx])]
          /\ stack' = Append([stack EXCEPT ![Len(stack)].idx = top.idx + 1],
                             Frame(got.value[top.idx]))
    /\ UNCHANGED <<obj, grammar, binary, words, n, pc, r, span, start, mid,
                   i1, i2, k, cur, held, ret, err>>

\* unaryUpdate: the for loop is exhausted (or the symbol has no unary rule)
UnaryUpdateReturn ==
    /\ stack # <<>>
    /\ LET top == stack[Len(stack)]
           got == GuardedLookup(unary, top.symbol)
       IN /\ top.idx > Len(got.value)
          /\ unary' = got.index
    /\ stack' = SubSeq(stack, 1, Len(stack) - 1)
    /\ UNCHANGED <<obj, grammar, binary, words, n, matrix, pc, r, span, start,
                   mid, i1, i2, k, cur, held, ret, err>>

\* unaryUpdate: the recursive call exceeds the recursion limit; the
\* RecursionError propagates out of recognise
UnaryUpdateOverflow ==
    /\ stack # <<>>
    /\ LET top == stack[Len(stack)]
           got == GuardedLookup(unary, top.symbol)
       IN /\ top.idx <= Len(got.value)
          /\ ~(Len(stack) < RecursionLimit)
          /\ unary' = got.index
          /\ matrix' = [matrix EXCEPT ![cur] = addLabel(@, got.value[top.idx])]
    /\ stack' = <<>>
    /\ pc' = "raised"
    /\ err' = "RecursionError"
    /\ UNCHANGED <<obj, grammar, binary, words, n, r, span, start, mid,
                   i1, i2, k, cur, held, ret>>

\* maybeBuild: binary[(s1,s2)] has a next parent s: addLabel(s), then the
\* call unaryUpdate(s)
MaybeBuildAdd ==
    /\ pc = "binaryScan"
    /\ stack = <<>>
    /\ LET end == start + span
           l1 == matrix[<<start, mid>>]
           l2 == matrix[<<mid, end>>]
       IN /\ i1 <= Len(l1)
          /\ i2 <= Len(l2)
          /\ LET got == GuardedLookup(binary, <<l1[i1], l2[i2]>>)
                 cell == maybeBuildCell(start, mid, end)
             IN /\ k <= Len(got.value)
                /\ binary' = got.index
                /\ matrix' = [matrix EXCEPT ![cell] = addLabel(@, got.value[k])]
                /\ held' = addLabel(matrix[cell], got.value[k])
                /\ cur' = cell
                /\ stack' = <<Frame(got.value[k])>>
    /\ k' = k + 1
    /\ UNCHANGED <<obj, grammar, unary, words, n, pc, r, span, start, mid,
                   i1, i2, ret, err>>

\* maybeBuild: the pair (s1, s2) is done (or is no key of binary): next pair
MaybeBuildAdvance ==
    /\ pc = "binaryScan"
    /\ stack = <<>>
    /\ LET end == start + span
           l1 == matrix[<<start, mid>>]
           l2 == matrix[<<mid, end>>]
       IN /\ i1 <= Len(l1)
          /\ IF i2 <= Len(l2)
             THEN LET got == GuardedLookup(binary, <<l1[i1], l2[i2]>>)
                  IN /\ k > Len(got.value)
                     /\ binary' = got.index
                     /\ i1' = i1
                     /\ i2' = i2 + 1
             ELSE /\ binary' = binary
                  /\ i1' = i1 + 1
                  /\ i2' = 1
    /\ k' = 1
    /\ UNCHANGED <<obj, grammar, unary, words, n, matrix, pc, r, span, start,
                   mid, cur, stack, held, ret, err>>

\* maybeBuild returns; binaryScan moves to the next (span, start, mid)
MaybeBuildReturn ==
    /\ pc = "binaryScan"
    /\ stack = <<>>
    /\ i1 > Len(matrix[<<start, mid>>])
    /\ LET nxt == ScanNext(n, span, start, mid)
       IN /\ pc' = IF nxt.more THEN "binaryScan" ELSE "result"
          /\ span' = nxt.span
          /\ start' = nxt.start
          /\ mid' = nxt.mid
    /\ i1' = 1
    /\ i2' = 1
    /\ k' = 1
    /\ UNCHANGED <<obj, grammar, unary, binary, words, n, matrix, r, cur,
                   stack, held, ret, err>>

\* recognise: the lookup of matrix[0][n-1] and the value returned
Result ==
    /\ pc = "result"
    /\ IF <<0, n - 1>> \in DOMAIN matrix
       THEN /\ ret' = recogniseResult(matrix[<<0, n - 1>>], grammar.start)
            /\ pc' = "done"
            /\ err' = err
       ELSE /\ ret' = ret
            /\ pc' = "raised"
            /\ err' = "IndexError"
    /\ UNCHANGED <<obj, grammar, unary, binary, words, n, matrix, r, span,
                   start, mid, i1, i2, k, cur, stack, held>>

Next ==
    \/ Construct
    \/ Recognise
    \/ UnaryFillCall
    \/ UnaryFillReturn
    \/ UnaryUpdateExpand
    \/ UnaryUpdateReturn
    \/ UnaryUpdateOverflow
    \/ MaybeBuildAdd
    \/ MaybeBuildAdvance
    \/ MaybeBuildReturn
    \/ Result

Spec == Init /\ [][Next]_vars

\* ------------------------------------------------- derivation (reference)
Unaries(P) == { x \in 1..Len(P) : Len(P[x].rhs) = 1 }
Binaries(P) == { x \in 1..Len(P) : Len(P[x].rhs) = 2 }

\* least set containing S and closed under the unary productions of P
RECURSIVE UnaryClose(_, _)
UnaryClose(S, P) ==
    LET T == S \cup { P[x].lhs : x \in { y \in Unaries(P) : P[y].rhs[1] \in S } }
    IN IF T = S THEN S ELSE UnaryClose(T, P)

\* the symbols that derive exactly w[i+1..j] (tokens i..j-1, counted from 0)
RECURSIVE Derives(_, _, _, _)
Derives(P, w, i, j) ==
    UnaryClose(
        IF j = i + 1
        THEN {w[j]}
        ELSE { P[x].lhs : x \in { y \in Binaries(P) :
                  \E m \in (i + 1)..(j - 1) :
                      /\ P[y].rhs[1] \in Derives(P, w, i, m)
                      /\ P[y].rhs[2] \in Derives(P, w, m, j) } },
        P)

\* parents of a symbol in the unary index
Parents(sym) == IF sym \in DOMAIN unary THEN Range(unary[sym]) ELSE {}

\* symbols reachable from the symbols of S through one or more unary rules
RECURSIVE ReachFrom(_, _)
ReachFrom(S, acc) ==
    LET T == acc \cup UNION { Parents(x) : x \in S \cup acc }
    IN IF T = acc THEN acc ELSE ReachFrom(S, T)
UnaryReach(sym) == ReachFrom({sym}, {})

\* S->NP VP, NP->the N, N->dog, VP->barks
DogGrammar == Pick({1, 2, 3, 4}, 1)
\* N->dog, S->N
ChainGrammar == Pick({3, 6}, 1)

Running == pc \in {"unaryFill", "binaryScan", "result"}
TopCell == matrix[<<0, n - 1>>]

\* ------------------------------------------------------------------ claims

\* C1: a call of Cell.unaryUpdate always finishes (no RecursionError), and
\* when the outermost call returns the cell holds exactly the labels it held
\* at the call plus every symbol reachable from `symbol` by unary rules.
C1_UnaryUpdateTerminates ==
    [][ /\ err' # "RecursionError"
        /\ (Len(stack) = 1 /\ stack' = <<>> /\ pc' # "raised")
              => Range(matrix'[cur]) =
                    Range(held) \cup UnaryReach(stack[1].symbol) ]_vars

\* C2: recognise of the empty token sequence completes normally and reports
\* not-derivable; it never raises.
C2_EmptyInputNotDerivable ==
    (obj = "ok" /\ words = <<>> /\ pc \in {"done", "raised"})
        => (pc = "done" /\ err = "none" /\ ret.tag = "False")

\* C3: when recognise has completed, each cell (start, end) holds X iff X
\* derives tokens[start..end), and recognise reports derivable iff the start
\* symbol derives the whole token sequence (with the three examples).
C3_Derivability ==
    pc = "done" =>
        /\ \A c \in DOMAIN matrix :
              Range(matrix[c]) = Derives(grammar.productions, words, c[1], c[2])
        /\ (ret.tag = "int") <=>
              (grammar.start \in Derives(grammar.productions, words, 0, Len(words)))
        /\ (grammar.productions = DogGrammar /\ words = <<"the", "dog", "barks">>)
              => ret.tag = "int"
        /\ (grammar.productions = DogGrammar /\ words = <<"dog", "barks", "the">>)
              => ret.tag = "False"
        /\ (grammar.productions = ChainGrammar /\ words = <<"dog">>)
              => ret.tag = "int"

C3_Witness ==
    /\ pc = "done"
    /\ grammar.productions = DogGrammar
    /\ words = <<"the", "dog", "barks">>
    /\ "S" \in Range(TopCell)

C6_LabelSet ==
    [][ /\ \A c \in DOMAIN matrix' :
              /\ Cardinality(Range(matrix'[c])) = Len(matrix'[c])
              /\ \A x \in Range(matrix'[c]) : addLabel(matrix'[c], x) = matrix'[c]
        /\ Running =>
              \A c \in DOMAIN matrix :
                 /\ Len(matrix'[c]) >= Len(matrix[c])
                 /\ SubSeq(matrix'[c], 1, Len(matrix[c])) = matrix[c] ]_vars

\* addLabel has just been called with a label the cell already held
C6_Witness ==
    /\ stack # <<>>
    /\ stack[Len(stack)].idx = 1
    /\ stack[Len(stack)].symbol \in Range(matrix[cur])
    /\ stack[Len(stack)].symbol # matrix[cur][Len(matrix[cur])]

\* C7: when recognise has completed every cell is closed under the unary
\* index: the parents of each of its labels, and everything a further
\* unaryUpdate of a label would reach, are already in the cell.
C7_UnaryFixedPoint ==
    pc = "done" =>
        \A c \in DOMAIN matrix : \A L \in Range(matrix[c]) :
            /\ Parents(L) \subseteq Range(matrix[c])
            /\ UnaryReach(L) \subseteq Range(matrix[c])

\* a finished cell of span 2 or more holding a chain of two unary rules
C7_Witness ==
    /\ pc = "done"
    /\ \E c \in DOMAIN matrix : \E L \in Range(matrix[c]) :
          \E p \in Parents(L) : Parents(p) # {} /\ c[2] - c[1] >= 2

\* C8: the diagonal is filled first, then spans 2..n-1 in increasing order;
\* a step of unaryFill changes only span-1 cells and a step of
\* maybeBuild(start, mid, end) changes only cell [start][end], whose span is
\* the current one, so no cell of a smaller span changes any more.
C8_SpanOrdering ==
    [][ (pc \in {"unaryFill", "binaryScan"}) =>
          /\ \A c \in DOMAIN matrix :
                matrix'[c] # matrix[c] =>
                   IF pc = "unaryFill"
                   THEN c[2] - c[1] = 1
                   ELSE c = <<start, start + span>>
          /\ pc = "binaryScan" =>
                /\ pc' # "unaryFill"
                /\ pc' = "binaryScan" => (span' = span \/ span' = span + 1)
          /\ (pc = "unaryFill" /\ pc' # "unaryFill" /\ pc' # "raised") =>
                /\ r = n - 1
                /\ pc' = "binaryScan" => span' = 2 ]_vars

\* a label has been added to the span-3 cell after the span-2 cells
C8_Witness ==
    /\ pc = "binaryScan"
    /\ span = 3
    /\ matrix[<<0, 3>>] # <<>>
    /\ matrix[<<0, 2>>] # <<>>

\* C9: unaryUpdate is entered for a symbol (from maybeBuild, or by the
\* recursion on a parent) only when that symbol was newly inserted into the
\* cell, i.e. was not among the cell's labels before the addLabel.
C9_NoReExpansion ==
    [][ (stack' # <<>> /\ Len(stack') = Len(stack) + 1)
           => stack'[Len(stack')].symbol \notin Range(matrix[cur']) ]_vars

\* C10: recognition leaves the unary and binary mappings as construction
\* built them; a lookup that misses adds no label and raises nothing.
C10_IndexReadOnly ==
    [][ obj = "ok" =>
          /\ unary' = unary
          /\ binary' = binary
          /\ (stack # <<>> /\ stack[Len(stack)].symbol \notin DOMAIN unary)
                => (matrix' = matrix /\ err' = err /\ pc' = pc)
          /\ (pc = "binaryScan" /\ stack = <<>>
              /\ i1 <= Len(matrix[<<start, mid>>])
              /\ i2 <= Len(matrix[<<mid, start + span>>])
              /\ <<matrix[<<start, mid>>][i1], matrix[<<mid, start + span>>][i2]>>
                    \notin DOMAIN binary)
                => (matrix' = matrix /\ err' = err /\ pc' = pc) ]_vars

\* a unaryUpdate and a maybeBuild pair have missed their index
C10_Witness ==
    /\ pc = "binaryScan"
    /\ stack = <<>>
    /\ i1 <= Len(matrix[<<start, mid>>])
    /\ i2 = 2
    /\ <<matrix[<<start, mid>>][i1], matrix[<<mid, start + span>>][1]>>
          \notin DOMAIN binary
    /\ \E L \in Range(matrix[<<0, 1>>]) : L \notin DOMAIN unary

====
